---- MODULE Spec2Model ----
(***************************************************************************)
(* Model of src/main.py: the Streamlit article generator.                  *)
(*                                                                         *)
(* The state is the LuciUIController's widget values, the local variables  *)
(* of one call of LuciArticleGenerator.generate, the position of that call *)
(* (pc), the temporary files left on disk, and a log of the calls made to  *)
(* the external collaborators (PDF parser, embedding service, generation   *)
(* service).  Texts are sequences of tokens; a document is named by a      *)
(* string and Pages gives the page texts the parser extracts from it.      *)
(***************************************************************************)
EXTENDS Naturals, Sequences, FiniteSets

VARIABLES
    selected_model,   \* ui.selected_model                     (line 81)
    temperature,      \* ui.temperature, in tenths             (line 82)
    sample_article,   \* ui.sample_article, None or a document (line 84)
    essays,           \* ui.essays, a list of documents        (line 85)
    prompt_text,      \* ui.prompt_text: its set of placeholders (line 87)
    pc,               \* position of generate
    style_text,       \* local of generate                     (line 107)
    source_texts,     \* local of generate                     (line 111)
    source_retriever, \* local of generate                     (line 114)
    style_retriever,  \* local of generate                     (line 117)
    prompt,           \* local of generate                     (line 120)
    model,            \* local of generate                     (line 123)
    retrieved,        \* outputs of the two retrievers of the chain (line 128)
    request,          \* what the generation service was invoked with
    result_chain,     \* local of generate                     (line 128)
    written,          \* what st.write has shown               (line 131)
    error,            \* the exception that ended generate, if any
    tempFiles,        \* temporary files existing on disk
    calls,            \* log of calls to the external collaborators
    stages            \* history of the pipeline stages entered

vars == <<selected_model, temperature, sample_article, essays, prompt_text, pc,
          style_text, source_texts, source_retriever, style_retriever, prompt,
          model, retrieved, request, result_chain, written, error, tempFiles, calls, stages>>

ui == <<selected_model, temperature, sample_article, essays, prompt_text>>

----------------------------------------------------------------------------
(* Bounds and input domains *)

MaxEssays == 2

None == "None"

model_options == {"gpt-4", "gpt-3.5-turbo-0613", "Gemini", "Luci-FT-Gen", "Claude2"}

\* An identifier outside model_options, for callers that hand generate an
\* object other than a LuciUIController.
OtherModels == {"not-a-real-model"}

\* Slider positions, in tenths: 0.0, 0.7 (the slider's default) and 1.0.
Temperatures == {0, 7, 10}

\* ChatOpenAI's own default temperature (0.7), used when none is passed.
DefaultTemperature == 7

StyleDocs == {"S", "SX"}
EssayDocs == {"A", "B", "X"}

\* Documents the PDF parser cannot read.
Corrupt == {"SX", "X"}

\* Page texts of a readable document, in page order.
Pages(doc) ==
    CASE doc = "S" -> << <<"s1">>, <<"s2">> >>
      [] doc = "A" -> << <<"a1">>, <<"a2">> >>
      [] doc = "B" -> << <<"b1">> >>
      [] OTHER    -> << >>

Placeholders == {"style", "context", "other"}

SeqsUpTo(S, n) == UNION {[1..k -> S] : k \in 0..n}

----------------------------------------------------------------------------
(* str.join *)

RECURSIVE Join(_, _)
Join(sep, texts) ==
    IF texts = << >> THEN << >>
    ELSE IF Len(texts) = 1 THEN Head(texts)
    ELSE Head(texts) \o sep \o Join(sep, Tail(texts))

----------------------------------------------------------------------------
(* LuciDocumentProcessor.get_text *)

\* The delete argument of tempfile.NamedTemporaryFile.
delete == FALSE

\* The PDF parser raises on a document it cannot read.
ParserOk(doc) == doc \notin Corrupt

\* "".join(t.page_content for t in pages)
GetTextValue(doc) == Join(<< >>, Pages(doc))

\* The files on disk once get_text has exited, by return or by exception:
\* the with-block closes the file it created, which removes it only if the
\* file was opened with delete=True.
GetTextFiles(files, doc) ==
    LET created == Append(files, doc)
    IN  IF delete THEN files ELSE created

----------------------------------------------------------------------------
(* LuciVectorStoreManager.build_vectorstore *)

NoRetriever == [built |-> FALSE, texts |-> << >>]

\* FAISS.from_texts([self.text], ...).as_retriever(): an index holding the
\* one text it was given.
BuildVectorstore(text) == [built |-> TRUE, texts |-> <<text>>]

\* What a retriever returns for a query: the nearest documents of its index
\* (at most four, and the index holds one).
RetrieverInvoke(retriever) == retriever.texts

----------------------------------------------------------------------------
(* Stages of the pipeline and bookkeeping *)

StageOf(p) ==
    CASE p = "idle"    -> "Idle"
      [] p = "style"   -> "ExtractingStyle"
      [] p = "content" -> "ExtractingContent"
      [] p \in {"index_source", "index_style"} -> "BuildingIndexes"
      [] p \in {"template", "model", "retrieve", "prompt"} -> "Composing"
      [] p \in {"llm", "write"} -> "Generating"
      [] p = "done"    -> "Done"
      [] OTHER         -> "Failed"

Goto(p) ==
    /\ pc' = p
    /\ stages' = IF StageOf(p) # StageOf(pc) THEN Append(stages, StageOf(p))
                 ELSE stages

NoError == [raised |-> FALSE, kind |-> "", at |-> ""]

\* Variant: the exception is caught and generate goes on to st.write.
RaiseSwallowed(kind) ==
    /\ error' = error
    /\ Goto("write")

\* Variant: the exception is caught and the failed statement run again.
RaiseRetried(kind) ==
    /\ error' = error
    /\ UNCHANGED <<pc, stages>>

\* An exception leaves generate: nothing in generate catches it.
Raise(kind) ==
    /\ error' = [raised |-> TRUE, kind |-> kind, at |-> pc]
    /\ Goto("failed")

Call(svc, key, n, ok) == [svc |-> svc, key |-> key, n |-> n, ok |-> ok]

NoRetrieved == [state |-> "pending", docs |-> << >>]

----------------------------------------------------------------------------
(* Initial states: the widgets hold the user's choices, Run is not pressed *)

Locals ==
    /\ pc = "idle"
    /\ style_text = << >>
    /\ source_texts = << >>
    /\ source_retriever = NoRetriever
    /\ style_retriever = NoRetriever
    /\ prompt = [made |-> FALSE, input_variables |-> {}, value |-> {}]
    /\ model = [made |-> FALSE, model_name |-> "", temperature |-> 0]
    /\ retrieved = [context |-> NoRetrieved, style |-> NoRetrieved]
    /\ request = [sent |-> FALSE, model_name |-> "", temperature |-> 0, messages |-> {}]
    /\ result_chain = << >>
    /\ written = << >>
    /\ error = NoError
    /\ tempFiles = << >>
    /\ calls = << >>
    /\ stages = <<"Idle">>

Widgets ==
    /\ temperature \in Temperatures
    /\ sample_article \in {None} \cup StyleDocs
    /\ essays \in SeqsUpTo(EssayDocs, MaxEssays)
    /\ prompt_text \in SUBSET Placeholders

\* setup_ui: the model comes from a selectbox over model_options.
Init ==
    /\ selected_model \in model_options
    /\ Widgets
    /\ Locals

\* generate handed any object with the five attributes it reads.
InitDirect ==
    /\ selected_model \in model_options \cup OtherModels
    /\ Widgets
    /\ Locals

----------------------------------------------------------------------------
(* LuciArticleGenerator.generate, one action per step *)

\* The Run button: generate is called and evaluates the condition of its
\* first statement.  Without a sample article style_text is "".
Run ==
    /\ pc = "idle"
    /\ IF sample_article # None
       THEN Goto("style") /\ UNCHANGED style_text
       ELSE Goto("content") /\ style_text' = << >>
    /\ UNCHANGED <<ui, source_texts, source_retriever, style_retriever, prompt,
                   model, retrieved, request, result_chain, written, error,
                   tempFiles, calls>>

\* style_text = LuciDocumentProcessor(self.ui.sample_article).get_text()
ExtractStyle ==
    /\ pc = "style"
    /\ tempFiles' = GetTextFiles(tempFiles, sample_article)
    /\ calls' = Append(calls, Call("parser", "style", 0, ParserOk(sample_article)))
    /\ IF ParserOk(sample_article)
       THEN /\ style_text' = GetTextValue(sample_article)
            /\ Goto("content")
            /\ UNCHANGED error
       ELSE /\ Raise("parser")
            /\ UNCHANGED style_text
    /\ UNCHANGED <<ui, source_texts, source_retriever, style_retriever, prompt,
                   model, retrieved, request, result_chain, written>>

\* Variant: the newest text is put first.
CollectFirst(texts, text) == <<text>> \o texts

\* The comprehension collects each result after the ones before it.
Collect(texts, text) == Append(texts, text)

\* One iteration of [LuciDocumentProcessor(essay).get_text() for essay in
\* self.ui.essays]: the next essay, in list order.
ExtractContent ==
    /\ pc = "content"
    /\ Len(source_texts) < Len(essays)
    /\ LET i == Len(source_texts) + 1
           essay == essays[i]
       IN  /\ tempFiles' = GetTextFiles(tempFiles, essay)
           /\ calls' = Append(calls, Call("parser", "essay", i, ParserOk(essay)))
           /\ IF ParserOk(essay)
              THEN /\ source_texts' = Collect(source_texts, GetTextValue(essay))
                   /\ UNCHANGED <<pc, stages, error>>
              ELSE /\ Raise("parser")
                   /\ UNCHANGED source_texts
    /\ UNCHANGED <<ui, style_text, source_retriever, style_retriever, prompt,
                   model, retrieved, request, result_chain, written>>

\* The comprehension is exhausted (at once when no essay was uploaded, where
\* source_texts is []).
ContentDone ==
    /\ pc = "content"
    /\ Len(source_texts) = Len(essays)
    /\ Goto("index_source")
    /\ UNCHANGED <<ui, style_text, source_texts, source_retriever,
                   style_retriever, prompt, model, retrieved, request,
                   result_chain, written, error, tempFiles, calls>>

\* source_retriever = LuciVectorStoreManager(" ".join(source_texts)).build_vectorstore()
\* The embedding service answers or fails, whatever the text.
BuildSourceIndex ==
    /\ pc = "index_source"
    /\ \E ok \in BOOLEAN :
         /\ calls' = Append(calls, Call("embedding", "source_index", 0, ok))
         /\ IF ok
            THEN /\ source_retriever' = BuildVectorstore(Join(<<" ">>, source_texts))
                 /\ Goto("index_style")
                 /\ UNCHANGED error
            ELSE /\ Raise("embedding")
                 /\ UNCHANGED source_retriever
    /\ UNCHANGED <<ui, style_text, source_texts, style_retriever, prompt, model,
                   retrieved, request, result_chain, written, tempFiles>>

\* style_retriever = LuciVectorStoreManager(style_text).build_vectorstore()
BuildStyleIndex ==
    /\ pc = "index_style"
    /\ \E ok \in BOOLEAN :
         /\ calls' = Append(calls, Call("embedding", "style_index", 0, ok))
         /\ IF ok
            THEN /\ style_retriever' = BuildVectorstore(style_text)
                 /\ Goto("template")
                 /\ UNCHANGED error
            ELSE /\ Raise("embedding")
                 /\ UNCHANGED style_retriever
    /\ UNCHANGED <<ui, style_text, source_texts, source_retriever, prompt, model,
                   retrieved, request, result_chain, written, tempFiles>>

\* prompt = ChatPromptTemplate.from_template(self.ui.prompt_text): the
\* input variables are the placeholders found in the text.
MakePrompt ==
    /\ pc = "template"
    /\ prompt' = [prompt EXCEPT !.made = TRUE, !.input_variables = prompt_text]
    /\ Goto("model")
    /\ UNCHANGED <<ui, style_text, source_texts, source_retriever,
                   style_retriever, model, retrieved, request, result_chain,
                   written, error, tempFiles, calls>>

\* model = ChatOpenAI(model=self.ui.selected_model)
ChatOpenAI(name) ==
    [made |-> TRUE, model_name |-> name, temperature |-> DefaultTemperature]

MakeModel ==
    /\ pc = "model"
    /\ model' = ChatOpenAI(selected_model)
    /\ Goto("retrieve")
    /\ UNCHANGED <<ui, style_text, source_texts, source_retriever,
                   style_retriever, prompt, retrieved, request, result_chain,
                   written, error, tempFiles, calls>>

\* Variant: the two retrievers exchanged.
ChainRetrieverSwapped(key) ==
    IF key = "context" THEN style_retriever ELSE source_retriever

\* {"context": source_retriever, "style": style_retriever}
ChainRetriever(key) ==
    IF key = "context" THEN source_retriever ELSE style_retriever

\* First step of the chain: the two retrievers are invoked with the query,
\* concurrently, and each embeds the query through the embedding service.
Retrieve(key) ==
    /\ pc = "retrieve"
    /\ retrieved[key].state = "pending"
    /\ \E ok \in BOOLEAN :
         /\ calls' = Append(calls, Call("embedding", key, 0, ok))
         /\ retrieved' = [retrieved EXCEPT ![key] =
               IF ok THEN [state |-> "ok", docs |-> RetrieverInvoke(ChainRetriever(key))]
               ELSE [state |-> "failed", docs |-> << >>]]
    /\ UNCHANGED <<ui, pc, stages, style_text, source_texts, source_retriever,
                   style_retriever, prompt, model, request, result_chain,
                   written, error, tempFiles>>

\* Both retrievers have returned: the chain goes on, or re-raises.
RetrieveJoin ==
    /\ pc = "retrieve"
    /\ \A key \in {"context", "style"} : retrieved[key].state # "pending"
    /\ IF \A key \in {"context", "style"} : retrieved[key].state = "ok"
       THEN Goto("prompt") /\ UNCHANGED error
       ELSE Raise("embedding")
    /\ UNCHANGED <<ui, style_text, source_texts, source_retriever,
                   style_retriever, prompt, model, retrieved, request,
                   result_chain, written, tempFiles, calls>>

\* Second step: the prompt binds its input variables from the retrievers'
\* outputs.  A variable the outputs lack raises; an output the template
\* does not name is ignored.
FormatOk(variables) == variables \subseteq {"context", "style"}

FormatValue(variables, values) == {<<v, values[v].docs>> : v \in variables}

FormatPrompt ==
    /\ pc = "prompt"
    /\ IF FormatOk(prompt.input_variables)
       THEN /\ prompt' = [prompt EXCEPT !.value =
                              FormatValue(prompt.input_variables, retrieved)]
            /\ Goto("llm")
            /\ UNCHANGED error
       ELSE /\ Raise("template")
            /\ UNCHANGED prompt
    /\ UNCHANGED <<ui, style_text, source_texts, source_retriever,
                   style_retriever, model, retrieved, request, result_chain,
                   written, tempFiles, calls>>

\* Third and fourth steps: the model is invoked with the bound prompt and
\* its answer parsed to a string.  The generation service answers or fails.
Generate ==
    /\ pc = "llm"
    /\ request' = [sent |-> TRUE, model_name |-> model.model_name,
                   temperature |-> model.temperature, messages |-> prompt.value]
    /\ \E ok \in BOOLEAN :
         /\ calls' = Append(calls, Call("generation", "llm", 0, ok))
         /\ IF ok
            THEN /\ result_chain' = <<"article">>
                 /\ Goto("write")
                 /\ UNCHANGED error
            ELSE /\ Raise("generation")
                 /\ UNCHANGED result_chain
    /\ UNCHANGED <<ui, style_text, source_texts, source_retriever,
                   style_retriever, prompt, model, retrieved, written, tempFiles>>

\* st.write(result_chain)
Write ==
    /\ pc = "write"
    /\ written' = Append(written, result_chain)
    /\ Goto("done")
    /\ UNCHANGED <<ui, style_text, source_texts, source_retriever,
                   style_retriever, prompt, model, retrieved, request,
                   result_chain, error, tempFiles, calls>>

Next ==
    \/ Run
    \/ ExtractStyle
    \/ ExtractContent
    \/ ContentDone
    \/ BuildSourceIndex
    \/ BuildStyleIndex
    \/ MakePrompt
    \/ MakeModel
    \/ \E key \in {"context", "style"} : Retrieve(key)
    \/ RetrieveJoin
    \/ FormatPrompt
    \/ Generate
    \/ Write

Spec == Init /\ [][Next]_vars

SpecDirect == InitDirect /\ [][Next]_vars

----------------------------------------------------------------------------
(* Properties *)

Terminal == pc \in {"done", "failed"}

Called(svc, key) == \E i \in 1..Len(calls) : calls[i].svc = svc /\ calls[i].key = key

\* C1: with no content document uploaded, generate fails with
\* NoContentError: it builds no content index over the empty corpus, never
\* invokes the generation service and does not complete.
C1_EmptyContentFails ==
    essays = << >> =>
        /\ ~Called("embedding", "source_index")
        /\ ~request.sent
        /\ pc # "done"
        /\ (pc = "failed" /\ error.at # "style" => error.kind = "NoContentError")

C3_TempFilesReleased == tempFiles = << >>

\* C4: with a template lacking {context} or {style}, the pipeline fails
\* at composition: the generation client is never reached, let alone
\* invoked, with such a template.
C4_MissingPlaceholderFails ==
    ~({"context", "style"} \subseteq prompt_text) =>
        /\ ~request.sent
        /\ pc \notin {"llm", "write", "done"}

\* C5: with no style document the style corpus is empty, and its retriever
\* returns empty text for the query and never an error, whatever the
\* embedding service answers: neither building the style index nor
\* querying it can fail.
C5_EmptyCorpusSentinel ==
    sample_article = None =>
        /\ ~(error.raised /\ error.at = "index_style")
        /\ retrieved.style.state # "failed"
        /\ (retrieved.style.state = "ok" =>
               \A i \in 1..Len(retrieved.style.docs) : retrieved.style.docs[i] = << >>)

\* C6: the generation service is invoked with the temperature the user
\* selected.
C6_TemperatureForwarded ==
    request.sent => request.temperature = temperature

\* The texts of the uploaded essays, in upload order.
UploadOrderTexts == [i \in 1..Len(essays) |-> GetTextValue(essays[i])]

\* C7: the content corpus handed to the index builder is the essays'
\* extracted texts in upload order: the texts collected so far are those of
\* the first essays of the list, in list order, and the content index holds
\* exactly their space-joined concatenation.
C7_UploadOrderKept ==
    /\ Len(source_texts) <= Len(essays)
    /\ \A i \in 1..Len(source_texts) : source_texts[i] = UploadOrderTexts[i]
    /\ source_retriever.built =>
           source_retriever.texts = << Join(<<" ">>, UploadOrderTexts) >>

C7_Witness ==
    /\ source_retriever.built
    /\ Len(essays) >= 2
    /\ essays[1] # essays[2]

AllOk(keys) == \A k \in keys : \E i \in 1..Len(calls) : calls[i].key = k /\ calls[i].ok

\* C8: st.write shows a result only in a run in which every stage
\* succeeded: no call to a collaborator failed and no exception was raised,
\* the style text and every essay's text are the ones the parser extracted
\* (none replaced by empty text), both indexes were built and queried, and
\* what is shown is the generation service's answer.  A run that raised has
\* shown nothing.
C8_OnlyCompleteResultsShown ==
    /\ written # << >> =>
          /\ ~error.raised
          /\ \A i \in 1..Len(calls) : calls[i].ok
          /\ style_text = (IF sample_article = None THEN << >>
                           ELSE GetTextValue(sample_article))
          /\ sample_article # None => Called("parser", "style")
          /\ source_texts = UploadOrderTexts
          /\ \A i \in 1..Len(essays) :
                \E j \in 1..Len(calls) : calls[j].key = "essay" /\ calls[j].n = i
          /\ AllOk({"source_index", "style_index", "context", "style", "llm"})
          /\ written = << <<"article">> >>
    /\ error.raised => written = << >> /\ pc = "failed"

C8_Witness ==
    /\ written # << >>
    /\ sample_article # None
    /\ Len(essays) >= 2

TokensOf(texts) == UNION {{texts[i][j] : j \in 1..Len(texts[i])} : i \in 1..Len(texts)}

Flatten(docs) == UNION {TokensOf(Pages(d)) : d \in docs}

PastIndexes == pc \in {"template", "model", "retrieve", "prompt", "llm", "write", "done"}

IndexBuilds == {i \in 1..Len(calls) : calls[i].key \in {"source_index", "style_index"}}

Rank(stage) ==
    CASE stage = "Idle" -> 0
      [] stage = "ExtractingStyle" -> 1
      [] stage = "ExtractingContent" -> 2
      [] stage = "BuildingIndexes" -> 3
      [] stage = "Composing" -> 4
      [] stage = "Generating" -> 5
      [] OTHER -> 6

\* C10, state part: the stages entered so far are in the fixed order, none
\* twice, ending at the current one, and nothing follows Done or Failed;
\* ExtractingStyle is entered exactly when a style document is present and
\* the style text is empty otherwise; no call to a collaborator is made
\* twice; the generation service is invoked only once both indexes are
\* built and both retrievals have returned; and only Done and Failed have
\* no next step.
C10_StageOrder ==
    /\ \A i \in 1..Len(stages), j \in 1..Len(stages) :
          i < j => /\ Rank(stages[i]) < Rank(stages[j])
                   /\ stages[i] \notin {"Done", "Failed"}
    /\ stages[Len(stages)] = StageOf(pc)
    /\ pc # "idle" =>
          /\ ("ExtractingStyle" \in {stages[i] : i \in 1..Len(stages)}) <=> (sample_article # None)
          /\ sample_article = None => style_text = << >>
          /\ stages[2] = (IF sample_article # None THEN "ExtractingStyle" ELSE "ExtractingContent")
    /\ \A i \in 1..Len(calls), j \in 1..Len(calls) :
          i < j => <<calls[i].svc, calls[i].key, calls[i].n>> # <<calls[j].svc, calls[j].key, calls[j].n>>
    /\ (request.sent \/ pc \in {"llm", "write", "done"}) =>
          /\ source_retriever.built /\ style_retriever.built
          /\ retrieved.context.state = "ok" /\ retrieved.style.state = "ok"
          /\ AllOk({"source_index", "style_index", "context", "style"})
    /\ Terminal \/ ENABLED Next
    /\ Terminal => ~ENABLED Next

\* C10: one call of generate goes through the stages in the fixed order,
\* without re-entering a stage or repeating a call, starts generation only
\* after both indexes are built, and always ends in Done or Failed.
C10_LinearPipeline == [] C10_StageOrder /\ <> Terminal

C10_Witness ==
    stages = <<"Idle", "ExtractingStyle", "ExtractingContent", "BuildingIndexes",
               "Composing", "Generating", "Done">>

\* generate is straight-line code: each statement runs once the one before
\* it has returned, and each call to a collaborator returns or raises.
FairSpec == Init /\ [][Next]_vars /\ WF_vars(Next)

====
